---- MODULE Spec2Model ----
(***************************************************************************)
(* Model of share.py: the resumable download loop of main(), the retry     *)
(* logic of fetch_stock_history(), the status file (load/save/remove) and  *)
(* the batched CSV writer.                                                 *)
(*                                                                         *)
(* Durable state : statusFile (download_status.json), outFile (the CSV).   *)
(* Volatile state: everything main() and fetch_stock_history() keep in     *)
(*                 memory; a kill of the process loses it.                 *)
(* Environment   : ak (what the akshare call does), flaky (the identifiers *)
(*                 for which the endpoint may answer with something other  *)
(*                 than a normal payload), days (klines per payload).      *)
(***************************************************************************)
EXTENDS Integers, Sequences, FiniteSets, TLC

\* ---------------------------------------------------------------- constants
MAX_RETRIES == 5
BATCH_SIZE == 50

\* ------------------------------------------------------------------- bounds
\* number of rows of the akshare table that pass the filter (large universe)
NumCodes == 52
\* most 429 answers followed inside one fetch_stock_history call
MaxAttempt == 6
\* most klines in one payload
MaxDays == 3
\* most program starts in one behaviour
MaxRuns == 2
\* most identifiers the endpoint misbehaves for in the large universe
MaxFlaky == 2

\* ------------------------------------------------------------------ helpers
Range(s) == {s[k] : k \in 1..Len(s)}

SliceFrom1_Whole(s) == s

\* s[1:] of a Python list
SliceFrom1(s) == IF Len(s) = 0 THEN <<>> ELSE Tail(s)

\* ------------------------------------------------------- Universe Provider
test_codes ==
    << "600519", "000001", "601318", "000858", "600036",
       "601988", "601288", "601398", "601988", "601628" >>

except_codes == << "600519", "000001", "601318", "000858" >>

\* df[code.startswith(6/0/3) & ~name.contains("ST|退市")]["code"].tolist()
FilterRow(r) == r.prefix \in {"6", "0", "3"} /\ r.name = "plain"

\* ak.kind = "noimport": import akshare raises        -> outer except
\* ak.kind = "error"   : stock_info_a_code_name raises -> inner except
\* ak.kind = "table"   : a table of rows (code, first character, name kind)
get_filtered_stock_codes(a) ==
    IF a.kind = "noimport" THEN except_codes
    ELSE IF a.kind = "table" /\ Len(a.rows) > 0
         THEN LET filtered == SelectSeq(a.rows, FilterRow)
              IN  [k \in 1..Len(filtered) |-> filtered[k].code]
         ELSE test_codes

AkRow(c, p, nm) == [code |-> c, prefix |-> p, name |-> nm]

\* a small table: two rows pass the filter
SmallTable ==
    << AkRow("600519", "6", "plain"), AkRow("830799", "8", "plain"),
       AkRow("000001", "0", "plain"), AkRow("600001", "6", "ST") >>

\* a large table: NumCodes rows pass the filter
LargeTable ==
    [k \in 1..NumCodes |-> AkRow(ToString(600000 + k), "6", "plain")]
      \o << AkRow("000004", "0", "ST"), AkRow("430001", "4", "plain") >>

AkNoImport == [kind |-> "noimport", rows |-> <<>>]
AkError == [kind |-> "error", rows |-> <<>>]
AkSmall == [kind |-> "table", rows |-> SmallTable]
AkLarge == [kind |-> "table", rows |-> LargeTable]

\* ------------------------------------------------------------ Progress Store
NoStatus == [total |-> 0, completed |-> <<>>, remaining |-> <<>>]

\* the status file: <<>> when it does not exist, <<record>> when it does
load_download_status(f) == IF Len(f) > 0 THEN f[1] ELSE NoStatus

save_download_status(st) == << st >>

\* ---------------------------------------------------------------- CSV file
NoLine == [kind |-> "none", code |-> "", n |-> 0]
BlankLine == [kind |-> "blank", code |-> "", n |-> 0]
HeaderLine == [kind |-> "header", code |-> "", n |-> 0]
RowSet(c, n) == [kind |-> "rows", code |-> c, n |-> n]

NoFile == [exists |-> FALSE, content |-> <<>>]
EmptyFile == [exists |-> TRUE, content |-> <<>>]

\* pd.DataFrame().to_csv(OUTPUT_FILE, index=False, encoding="utf_8_sig"):
\* the frame has no columns, the writer emits the BOM and an empty line
CreateCsv(f) == IF f.exists THEN f ELSE [exists |-> TRUE, content |-> << BlankLine >>]

\* header = not os.path.exists(OUTPUT_FILE) or os.stat(OUTPUT_FILE).st_size == 0
NeedHeader(f) == (~f.exists) \/ Len(f.content) = 0

\* pd.concat(all_data).to_csv(OUTPUT_FILE, mode="a", header=..., index=False)
AppendCsv(f, frames) ==
    [exists |-> TRUE,
     content |-> f.content \o (IF NeedHeader(f) THEN << HeaderLine >> ELSE <<>>) \o frames]

\* random.uniform(10, 30), in whole seconds
RetryWaits == {10, 30}

VARIABLES
    pc,             \* position of the process in main()
    ak,             \* environment: behaviour of the akshare call
    flaky,          \* environment: identifiers the endpoint may fail for
    days,           \* environment: klines per payload
    statusFile,     \* download_status.json
    outFile,        \* the CSV
    all_codes,      \* main: all_codes
    status,         \* main: status
    completed_count,\* main: completed_count
    success_count,  \* main: success_count
    all_data,       \* main: all_data
    iter_list,      \* main: the list object the for loop iterates
    i,              \* main: entries of iter_list already taken
    code,           \* main: code
    df,             \* main: df
    retry_count,    \* fetch_stock_history: retry_count of the live frame
    wait_time,      \* fetch_stock_history: last time.sleep argument
    requests,       \* history: requests.get calls of this fetch call
    n429,           \* history: 429 answers in this fetch call
    sleeps,         \* history: time.sleep calls in this fetch call
    last_resp,      \* history: kind of the last answer
    runs,           \* history: program starts so far
    file0,          \* history: the CSV existed before the first start
    snapshot,       \* history: all_codes at the last fresh initialization
    loaded,         \* history: record returned by load_download_status
    fetched,        \* history: identifiers fetch was called for, this run
    absent,         \* history: identifiers whose fetch returned None, this run
    returned,       \* history: RowSets returned by fetch, this run
    flushes,        \* history: sizes of the to_csv appends, this run
    summary,        \* the printed summary counts
    saves           \* history: save_download_status calls, this run

vars == << pc, ak, flaky, days, statusFile, outFile, all_codes, status,
           completed_count, success_count, all_data, iter_list, i, code, df,
           retry_count, wait_time, requests, n429, sleeps, last_resp, runs,
           file0, snapshot, loaded, fetched, absent, returned, flushes, summary,
           saves >>

envVars == << ak, flaky, days, file0 >>
fetchVars == << retry_count, wait_time, requests, n429, sleeps, last_resp >>
NoSummary == [total |-> 0, success |-> 0, failed |-> 0]

\* the memory of a process that has not started
Memory0 ==
    /\ all_codes = <<>>
    /\ status = NoStatus
    /\ completed_count = 0
    /\ success_count = 0
    /\ all_data = <<>>
    /\ iter_list = <<>>
    /\ i = 0
    /\ code = ""
    /\ df = NoLine
    /\ retry_count = 0
    /\ wait_time = 0
    /\ requests = 0
    /\ n429 = 0
    /\ sleeps = 0
    /\ last_resp = "none"
    /\ loaded = NoStatus
    /\ fetched = <<>>
    /\ absent = {}
    /\ returned = <<>>
    /\ flushes = <<>>
    /\ summary = NoSummary
    /\ saves = 0

InitCommon ==
    /\ pc = "start"
    /\ statusFile = <<>>
    /\ outFile \in {NoFile, EmptyFile}
    /\ file0 = outFile.exists
    /\ days \in 1..MaxDays
    /\ runs = 1
    /\ snapshot = <<>>
    /\ Memory0


\* ------------------------------------------------- fetch_stock_history rules
Wait429_NoPlusOne(rc) == 60 * rc

\* wait_time = 60 * (retry_count + 1)
Wait429(rc) == 60 * (rc + 1)

MayRetry_Inclusive(rc) == rc <= MAX_RETRIES

\* if retry_count < MAX_RETRIES
MayRetry(rc) == rc < MAX_RETRIES

BatchFull_Strict(buf) == Len(buf) > BATCH_SIZE

\* if len(all_data) >= BATCH_SIZE
BatchFull(buf) == Len(buf) >= BATCH_SIZE

\* the identifiers the endpoint may fail for: up to MaxFlaky neighbours of u
FlakyWindows(u) ==
    {{u[k] : k \in a..(IF a + w - 1 > Len(u) THEN Len(u) ELSE a + w - 1)} :
        a \in 1..Len(u), w \in 0..MaxFlaky}

SmallCodes == Range(test_codes) \cup Range(except_codes)

AkStates == {AkNoImport, AkSmall}

AkStatesFresh == {AkError, AkLarge}

\* ------------------------------------------------------------------- main()
\* a resumed record is filtered against what the provider returns now
Start_Refilter ==
    /\ pc = "start"
    /\ all_codes' = get_filtered_stock_codes(ak)
    /\ loaded' = load_download_status(statusFile)
    /\ IF loaded'.total = 0
       THEN /\ status' = [total |-> Len(all_codes'), completed |-> <<>>,
                          remaining |-> all_codes']
            /\ statusFile' = save_download_status(status')
            /\ saves' = saves + 1
            /\ snapshot' = all_codes'
       ELSE /\ status' = [loaded' EXCEPT !.remaining =
                            SelectSeq(all_codes',
                                      LAMBDA c : c \notin Range(loaded'.completed))]
            /\ UNCHANGED << statusFile, snapshot, saves >>
    /\ pc' = "prepare"
    /\ UNCHANGED << envVars, fetchVars, outFile, completed_count, success_count,
                    all_data, iter_list, i, code, df, runs, fetched, absent,
                    returned, flushes, summary >>

\* lines 101-116: universe, load, fresh initialization and first save
Start ==
    /\ pc = "start"
    /\ all_codes' = get_filtered_stock_codes(ak)
    /\ loaded' = load_download_status(statusFile)
    /\ IF loaded'.total = 0
       THEN /\ status' = [total |-> Len(all_codes'), completed |-> <<>>,
                          remaining |-> all_codes']
            /\ statusFile' = save_download_status(status')
            /\ saves' = saves + 1
            /\ snapshot' = all_codes'
       ELSE /\ status' = loaded'
            /\ UNCHANGED << statusFile, snapshot, saves >>
    /\ pc' = "prepare"
    /\ UNCHANGED << envVars, fetchVars, outFile, completed_count, success_count,
                    all_data, iter_list, i, code, df, runs, fetched, absent,
                    returned, flushes, summary >>

\* the success counter starts at zero in every run
Prepare_ZeroSuccess ==
    /\ pc = "prepare"
    /\ completed_count' = Len(status.completed)
    /\ success_count' = 0
    /\ all_data' = <<>>
    /\ outFile' = CreateCsv(outFile)
    /\ iter_list' = status.remaining
    /\ i' = 0
    /\ pc' = "loop"
    /\ UNCHANGED << envVars, fetchVars, statusFile, all_codes, status, code, df,
                    runs, snapshot, loaded, fetched, absent, returned, flushes,
                    summary, saves >>

\* lines 119-138: counters, buffer, placeholder CSV, the loop's iterator
Prepare ==
    /\ pc = "prepare"
    /\ completed_count' = Len(status.completed)
    /\ success_count' = completed_count'
    /\ all_data' = <<>>
    /\ outFile' = CreateCsv(outFile)
    /\ iter_list' = status.remaining
    /\ i' = 0
    /\ pc' = "loop"
    /\ UNCHANGED << envVars, fetchVars, statusFile, all_codes, status, code, df,
                    runs, snapshot, loaded, fetched, absent, returned, flushes,
                    summary, saves >>

\* the loop follows the list status["remaining"] is bound to at the moment
Iterate_Live ==
    /\ pc = "loop"
    /\ i < Len(status.remaining)
    /\ code' = status.remaining[i + 1]
    /\ i' = i + 1
    /\ fetched' = Append(fetched, code')
    /\ retry_count' = 0
    /\ wait_time' = 0
    /\ requests' = 0
    /\ n429' = 0
    /\ sleeps' = 0
    /\ last_resp' = "none"
    /\ pc' = "fetch"
    /\ UNCHANGED << envVars, statusFile, outFile, all_codes, status,
                    completed_count, success_count, all_data, iter_list, df,
                    runs, snapshot, loaded, absent, returned, flushes, summary,
                    saves >>

\* lines 138-142: next entry of the iterated list, call fetch_stock_history(code)
Iterate ==
    /\ pc = "loop"
    /\ i < Len(iter_list)
    /\ code' = iter_list[i + 1]
    /\ i' = i + 1
    /\ fetched' = Append(fetched, code')
    /\ retry_count' = 0
    /\ wait_time' = 0
    /\ requests' = 0
    /\ n429' = 0
    /\ sleeps' = 0
    /\ last_resp' = "none"
    /\ pc' = "fetch"
    /\ UNCHANGED << envVars, statusFile, outFile, all_codes, status,
                    completed_count, success_count, all_data, iter_list, df,
                    runs, snapshot, loaded, absent, returned, flushes, summary, saves >>

mainFrame == << envVars, statusFile, outFile, all_codes, status, completed_count,
                success_count, all_data, iter_list, i, code, runs, snapshot,
                loaded, fetched, flushes, summary, saves >>

\* fetch_stock_history returns df (a RowSet or None) to line 142
Return(r, kind) ==
    /\ df' = r
    /\ last_resp' = kind
    /\ requests' = requests + 1
    /\ absent' = IF r = NoLine THEN absent \cup {code} ELSE absent
    /\ returned' = IF r = NoLine THEN returned ELSE Append(returned, code)
    /\ pc' = "returned"
    /\ UNCHANGED << retry_count, wait_time, n429, sleeps >>

\* lines 61-70: status 200 and data.get("data") is truthy
Resp200Data ==
    /\ pc = "fetch"
    /\ Return(RowSet(code, days), "200")
    /\ UNCHANGED mainFrame

\* lines 62-64, 82: status 200, "data" missing or empty
Resp200NoData ==
    /\ pc = "fetch"
    /\ code \in flaky
    /\ Return(NoLine, "nodata")
    /\ UNCHANGED mainFrame

\* any status but 200 and 429 is retried like an exception
RespOtherStatus_Retry ==
    /\ pc = "fetch"
    /\ code \in flaky
    /\ IF MayRetry(retry_count)
       THEN /\ \E w \in RetryWaits : wait_time' = w
            /\ retry_count' = retry_count + 1
            /\ requests' = requests + 1
            /\ sleeps' = sleeps + 1
            /\ last_resp' = "other"
            /\ UNCHANGED << pc, df, absent, returned, n429 >>
       ELSE Return(NoLine, "other")
    /\ UNCHANGED mainFrame

\* lines 62, 71, 82: a status that is neither 200 nor 429
RespOtherStatus ==
    /\ pc = "fetch"
    /\ code \in flaky
    /\ Return(NoLine, "other")
    /\ UNCHANGED mainFrame

\* lines 71-75: status 429, sleep, recursive call
Resp429 ==
    /\ pc = "fetch"
    /\ code \in flaky
    /\ retry_count < MaxAttempt
    /\ wait_time' = Wait429(retry_count)
    /\ retry_count' = retry_count + 1
    /\ requests' = requests + 1
    /\ n429' = n429 + 1
    /\ sleeps' = sleeps + 1
    /\ last_resp' = "429"
    /\ UNCHANGED << pc, df, absent, returned >>
    /\ UNCHANGED mainFrame

\* exceptions have a budget of their own, 429 answers do not count
RespException_OwnBudget ==
    /\ pc = "fetch"
    /\ code \in flaky
    /\ IF MayRetry(retry_count - n429)
       THEN /\ \E w \in RetryWaits : wait_time' = w
            /\ retry_count' = retry_count + 1
            /\ requests' = requests + 1
            /\ sleeps' = sleeps + 1
            /\ last_resp' = "exception"
            /\ UNCHANGED << pc, df, absent, returned, n429 >>
       ELSE Return(NoLine, "exception")
    /\ UNCHANGED mainFrame

\* lines 76-82: requests.get, response.json or the parsing raises
RespException ==
    /\ pc = "fetch"
    /\ code \in flaky
    /\ IF MayRetry(retry_count)
       THEN /\ \E w \in RetryWaits : wait_time' = w
            /\ retry_count' = retry_count + 1
            /\ requests' = requests + 1
            /\ sleeps' = sleeps + 1
            /\ last_resp' = "exception"
            /\ UNCHANGED << pc, df, absent, returned, n429 >>
       ELSE Return(NoLine, "exception")
    /\ UNCHANGED mainFrame

fetchReset ==
    /\ retry_count' = 0
    /\ wait_time' = 0
    /\ requests' = 0
    /\ n429' = 0
    /\ sleeps' = 0
    /\ last_resp' = "none"

\* lines 143-153: buffer the RowSet, record the success, flush a full batch
Accumulate ==
    /\ pc = "returned"
    /\ df # NoLine
    /\ LET buf == Append(all_data, df)
       IN  IF BatchFull(buf)
           THEN /\ outFile' = AppendCsv(outFile, buf)
                /\ flushes' = Append(flushes, Len(buf))
                /\ all_data' = <<>>
           ELSE /\ all_data' = buf
                /\ UNCHANGED << outFile, flushes >>
    /\ status' = [status EXCEPT !.completed = Append(@, code)]
    /\ success_count' = success_count + 1
    /\ fetchReset
    /\ pc' = "save"
    /\ UNCHANGED << envVars, statusFile, all_codes, completed_count, iter_list,
                    i, code, df, runs, snapshot, loaded, fetched, absent,
                    returned, summary, saves >>

\* the status is saved before the head of remaining is dropped
UpdateStatus_SaveFirst ==
    /\ pc = "save"
    /\ statusFile' = save_download_status(status)
    /\ status' = [status EXCEPT !.remaining = SliceFrom1(@)]
    /\ saves' = saves + 1
    /\ pc' = "loop"
    /\ UNCHANGED << envVars, fetchVars, outFile, all_codes, completed_count,
                    success_count, all_data, iter_list, i, code, df, runs,
                    snapshot, loaded, fetched, absent, returned, flushes,
                    summary >>

\* lines 155-163: drop the head of remaining, save the status, delay
UpdateStatus ==
    /\ pc = "save"
    /\ status' = [status EXCEPT !.remaining = SliceFrom1(@)]
    /\ statusFile' = save_download_status(status')
    /\ saves' = saves + 1
    /\ pc' = "loop"
    /\ UNCHANGED << envVars, fetchVars, outFile, all_codes, completed_count,
                    success_count, all_data, iter_list, i, code, df, runs,
                    snapshot, loaded, fetched, absent, returned, flushes,
                    summary >>

\* a failed identifier is taken off remaining and the status is saved
SkipAbsent_MarkFailed ==
    /\ pc = "returned"
    /\ df = NoLine
    /\ status' = [status EXCEPT !.remaining = SliceFrom1(@)]
    /\ statusFile' = save_download_status(status')
    /\ saves' = saves + 1
    /\ fetchReset
    /\ pc' = "loop"
    /\ UNCHANGED << envVars, outFile, all_codes, completed_count, success_count,
                    all_data, iter_list, i, code, df, runs, snapshot, loaded,
                    fetched, absent, returned, flushes, summary >>

\* a failed identifier is fetched again at once
SkipAbsent_RetrySame ==
    /\ pc = "returned"
    /\ df = NoLine
    /\ i' = i - 1
    /\ fetchReset
    /\ pc' = "loop"
    /\ UNCHANGED << envVars, statusFile, outFile, all_codes, status,
                    completed_count, success_count, all_data, iter_list, code,
                    df, runs, snapshot, loaded, fetched, absent, returned,
                    flushes, summary, saves >>

\* lines 143, 159-163: df is None, nothing but the delay
SkipAbsent ==
    /\ pc = "returned"
    /\ df = NoLine
    /\ fetchReset
    /\ pc' = "loop"
    /\ UNCHANGED << envVars, statusFile, outFile, all_codes, status,
                    completed_count, success_count, all_data, iter_list, i,
                    code, df, runs, snapshot, loaded, fetched, absent, returned,
                    flushes, summary, saves >>

\* lines 165-171: the loop is exhausted, write what is left in the buffer
FinalFlush ==
    /\ pc = "loop"
    /\ i >= Len(iter_list)
    /\ IF Len(all_data) > 0
       THEN /\ outFile' = AppendCsv(outFile, all_data)
            /\ flushes' = Append(flushes, Len(all_data))
       ELSE UNCHANGED << outFile, flushes >>
    /\ pc' = "summary"
    /\ UNCHANGED << envVars, fetchVars, statusFile, all_codes, status,
                    completed_count, success_count, all_data, iter_list, i,
                    code, df, runs, snapshot, loaded, fetched, absent, returned,
                    summary, saves >>

\* the status file is removed only when nothing failed
Finish_KeepOnFailure ==
    /\ pc = "summary"
    /\ summary' = [total |-> status.total, success |-> success_count,
                   failed |-> status.total - success_count]
    /\ statusFile' = IF absent = {} THEN <<>> ELSE statusFile
    /\ pc' = "done"
    /\ UNCHANGED << envVars, fetchVars, outFile, all_codes, status,
                    completed_count, success_count, all_data, iter_list, i,
                    code, df, runs, snapshot, loaded, fetched, absent, returned,
                    flushes, saves >>

\* lines 173-187: print the summary, remove the status file
Finish ==
    /\ pc = "summary"
    /\ summary' = [total |-> status.total, success |-> success_count,
                   failed |-> status.total - success_count]
    /\ statusFile' = <<>>
    /\ pc' = "done"
    /\ UNCHANGED << envVars, fetchVars, outFile, all_codes, status,
                    completed_count, success_count, all_data, iter_list, i,
                    code, df, runs, snapshot, loaded, fetched, absent, returned,
                    flushes, saves >>

\* ------------------------------------------------------------ process events
\* every variable of the process memory back to its value before a start
Forget ==
    /\ all_codes' = <<>>
    /\ status' = NoStatus
    /\ completed_count' = 0
    /\ success_count' = 0
    /\ all_data' = <<>>
    /\ iter_list' = <<>>
    /\ i' = 0
    /\ code' = ""
    /\ df' = NoLine
    /\ retry_count' = 0
    /\ wait_time' = 0
    /\ requests' = 0
    /\ n429' = 0
    /\ sleeps' = 0
    /\ last_resp' = "none"
    /\ loaded' = NoStatus
    /\ fetched' = <<>>
    /\ absent' = {}
    /\ returned' = <<>>
    /\ flushes' = <<>>
    /\ summary' = NoSummary
    /\ saves' = 0

\* the process is killed: memory is lost, the two files stay as they are
Kill ==
    /\ pc \in {"prepare", "loop", "fetch", "returned", "save", "summary"}
    /\ pc' = "killed"
    /\ Forget
    /\ UNCHANGED << envVars, statusFile, outFile, runs, snapshot >>

\* the program is started again; the akshare call may behave differently
Restart ==
    /\ pc \in {"killed", "done"}
    /\ runs < MaxRuns
    /\ runs' = runs + 1
    /\ ak' \in AkStates
    /\ pc' = "start"
    /\ Forget
    /\ UNCHANGED << flaky, days, file0, statusFile, outFile, snapshot >>

FetchStep ==
    \/ Resp200Data
    \/ Resp200NoData
    \/ RespOtherStatus
    \/ Resp429
    \/ RespException

MainStep ==
    \/ Start
    \/ Prepare
    \/ Iterate
    \/ Accumulate
    \/ UpdateStatus
    \/ SkipAbsent
    \/ FinalFlush
    \/ Finish

\* runs of the small universes, with kills and restarts
Init ==
    /\ InitCommon
    /\ ak \in AkStates
    /\ flaky = SmallCodes

Next ==
    \/ MainStep
    \/ FetchStep
    \/ Kill
    \/ Restart

Spec == Init /\ [][Next]_vars

\* one uninterrupted run from no checkpoint: the fallback list of ten and a
\* large universe
InitFresh ==
    /\ InitCommon
    /\ ak \in AkStatesFresh
    /\ flaky \in FlakyWindows(get_filtered_stock_codes(ak))

NextFresh ==
    \/ MainStep
    \/ FetchStep

SpecFresh == InitFresh /\ [][NextFresh]_vars

\* runs of the small universes that nothing interrupts: the process always
\* takes its next step, and every request is answered or raises (timeout=15)
SpecLive == Init /\ [][NextFresh]_vars /\ WF_vars(NextFresh)


\* ================================================================== claims
\* positions of the row-groups of identifier c in the CSV
RowGroups(f, c) ==
    {k \in 1..Len(f.content) : f.content[k].kind = "rows" /\ f.content[k].code = c}

RowGroupsAll(f) == {k \in 1..Len(f.content) : f.content[k].kind = "rows"}

Headers(f) == {k \in 1..Len(f.content) : f.content[k].kind = "header"}

RECURSIVE SumRows(_, _)
SumRows(f, k) == IF k = 0 THEN 0 ELSE f.content[k].n + SumRows(f, k - 1)

\* number of data rows of the CSV
DataRows(f) == SumRows(f, Len(f.content))

\* the process is inside a run of main(), after the initialization
InRun == pc \in {"prepare", "loop", "fetch", "returned", "save", "summary"}

Partition(st) ==
    /\ Range(st.completed) \cup Range(st.remaining) = Range(snapshot)
    /\ Range(st.completed) \cap Range(st.remaining) = {}

\* C1: at every loop-iteration boundary and in every saved checkpoint,
\* completed and remaining are disjoint and together make up the universe
\* snapshot taken at initialization.
C1_Partition ==
    /\ pc = "loop" => Partition(status)
    /\ statusFile # <<>> => Partition(statusFile[1])

\* C2: a run resumed from a checkpoint never calls fetch_stock_history for an
\* identifier listed in completed of that checkpoint.
C2_NoRefetch ==
    (pc = "fetch" /\ loaded.total # 0) => code \notin Range(loaded.completed)

\* C3: every identifier the saved checkpoint lists in completed has its rows
\* in the CSV, and a resumed run that ends leaves the rows of every identifier
\* the checkpoint listed in completed.
C3_CompletedStored ==
    /\ statusFile # <<>> =>
         \A c \in Range(statusFile[1].completed) : RowGroups(outFile, c) # {}
    /\ pc = "done" =>
         \A c \in Range(loaded.completed) : RowGroups(outFile, c) # {}

\* C4: an identifier whose fetch returned None in this run is in remaining,
\* in memory and in the saved checkpoint, until the checkpoint is cleared.
C4_AbsentStaysRemaining ==
    InRun =>
      \A c \in absent :
        /\ c \in Range(status.remaining)
        /\ statusFile # <<>> => c \in Range(statusFile[1].remaining)

\* C5: after an uninterrupted run that started with no checkpoint, the CSV
\* holds exactly one row-group for every identifier whose fetch returned a
\* RowSet.
C5_OneRowGroup ==
    pc = "done" => \A c \in Range(returned) : Cardinality(RowGroups(outFile, c)) = 1

\* RowSets handed to the buffer so far in this run
Accumulated ==
    IF pc = "returned" /\ df # NoLine THEN Len(returned) - 1 ELSE Len(returned)

FullBatches(n) == [k \in 1..(n \div BATCH_SIZE) |-> BATCH_SIZE]

\* C6: the buffer is flushed exactly when it reaches BATCH_SIZE RowSets, it
\* holds fewer than BATCH_SIZE between iterations, and after the loop there
\* is one more flush exactly when the buffer is not empty: N successes give
\* N div 50 flushes of 50 and a last one of N mod 50 when that is not 0.
C6_BatchFlushing ==
    /\ Len(all_data) <= BATCH_SIZE
    /\ pc \in {"loop", "fetch", "returned", "save"} =>
         /\ Len(all_data) < BATCH_SIZE
         /\ Len(all_data) = Accumulated % BATCH_SIZE
         /\ flushes = FullBatches(Accumulated)
    /\ pc \in {"summary", "done"} =>
         flushes = FullBatches(Accumulated) \o
                   (IF Accumulated % BATCH_SIZE # 0
                    THEN << Accumulated % BATCH_SIZE >> ELSE <<>>)

C6_Witness ==
    /\ pc = "done"
    /\ Len(returned) = BATCH_SIZE + 1
    /\ flushes = << BATCH_SIZE, 1 >>

\* C7: a 429 answer to the request made with counter a is followed by a wait
\* of 60 * (a + 1) seconds and another request with counter a + 1; it never
\* makes the call return.
C7_Backoff429 ==
    [][ (pc = "fetch" /\ requests' = requests + 1 /\ last_resp' = "429") =>
          /\ wait_time' = 60 * (retry_count + 1)
          /\ sleeps' = sleeps + 1
          /\ retry_count' = retry_count + 1
          /\ code' = code
          /\ pc' = "fetch" ]_vars

C7_Witness ==
    /\ pc = "fetch"
    /\ last_resp = "429"
    /\ n429 = 3
    /\ retry_count = 3
    /\ wait_time = 180

\* C8: when every request of a call raises, the call makes the first request
\* and exactly MAX_RETRIES retries, each after a wait of 10 to 30 seconds,
\* and then returns None.
C8_RetryCap ==
    /\ (pc = "fetch" /\ n429 = 0 /\ last_resp = "exception") =>
         /\ wait_time \in 10..30
         /\ sleeps = requests
         /\ retry_count = requests
         /\ requests <= MAX_RETRIES
    /\ (pc = "returned" /\ n429 = 0 /\ last_resp = "exception") =>
         /\ df = NoLine
         /\ requests = MAX_RETRIES + 1
         /\ sleeps = MAX_RETRIES

C8_Witness ==
    /\ pc = "returned"
    /\ n429 = 0
    /\ last_resp = "exception"
    /\ requests = MAX_RETRIES + 1
    /\ code \in absent

\* C9: a run that reaches its end leaves no status file; the status file is
\* removed only after every entry of the iterated list was fetched and the
\* buffer was written; with the universe 600519, 000001, three rows for the
\* first and None for the second, the CSV ends with three data rows, all of
\* 600519.
C9_EndOfRun ==
    /\ [](pc = "done" => statusFile = <<>>)
    /\ [][ (statusFile # <<>> /\ statusFile' = <<>>) =>
             /\ pc = "summary"
             /\ fetched = iter_list
             /\ \A k \in 1..Len(all_data) :
                  \E j \in 1..Len(outFile.content) : outFile.content[j] = all_data[k] ]_vars
    /\ []((/\ pc = "done"
           /\ runs = 1
           /\ iter_list = << "600519", "000001" >>
           /\ returned = << "600519" >>
           /\ days = 3) =>
            /\ DataRows(outFile) = 3
            /\ \A k \in RowGroupsAll(outFile) : outFile.content[k].code = "600519"
            /\ statusFile = <<>>)

C9_Witness ==
    /\ pc = "done"
    /\ runs = 1
    /\ iter_list = << "600519", "000001" >>
    /\ returned = << "600519" >>
    /\ absent = {"000001"}
    /\ days = 3
    /\ DataRows(outFile) = 3
    /\ statusFile = <<>>

\* C10: starting from no CSV, once a flush has written rows the CSV holds the
\* column header exactly once, before every row.
C10_HeaderOnce ==
    (~file0 /\ RowGroupsAll(outFile) # {}) =>
      /\ Cardinality(Headers(outFile)) = 1
      /\ \A h \in Headers(outFile) : \A k \in RowGroupsAll(outFile) : h < k


\* the record main() works on once the initialization is done
FreshRecord == [total |-> Len(all_codes), completed |-> <<>>, remaining |-> all_codes]

IsPrefix(a, b) == Len(a) <= Len(b) /\ a = SubSeq(b, 1, Len(a))

\* C11: with no checkpoint (or total = 0 in it) the record becomes total =
\* size of the universe, completed empty, remaining = the universe in provider
\* order, and it is saved before the first fetch; otherwise the loaded record
\* is used as it is and the run fetches exactly the entries of the loaded
\* remaining, whatever the provider returned.
C11_InitPolicy ==
    /\ (pc = "prepare" /\ loaded.total = 0) =>
         /\ status = FreshRecord
         /\ statusFile = << FreshRecord >>
         /\ fetched = <<>>
    /\ (pc = "prepare" /\ loaded.total # 0) =>
         /\ status = loaded
         /\ statusFile = << loaded >>
         /\ fetched = <<>>
    /\ (pc \in {"loop", "fetch", "returned", "save"} /\ loaded.total # 0) =>
         IsPrefix(fetched, loaded.remaining)
    /\ (pc \in {"summary", "done"} /\ loaded.total # 0) =>
         fetched = loaded.remaining

C11_Witness ==
    /\ pc = "done"
    /\ loaded.total # 0
    /\ Range(all_codes) # Range(snapshot)
    /\ Len(fetched) > 1
    /\ fetched = loaded.remaining


Cardinal(st) == Len(st.completed) + Len(st.remaining) = st.total

\* C12: at every loop-iteration boundary and in every saved checkpoint,
\* len(completed) + len(remaining) = total.
C12_Cardinality ==
    /\ pc = "loop" => Cardinal(status)
    /\ statusFile # <<>> => Cardinal(statusFile[1])

C12_Witness ==
    /\ pc = "loop"
    /\ loaded.total # 0
    /\ Len(status.completed) > Len(loaded.completed)
    /\ absent # {}
    /\ statusFile = << status >>
    /\ Cardinal(status)

\* remaining as it was when the loop of this run started
RemainingAtLoopStart == IF loaded.total = 0 THEN all_codes ELSE loaded.remaining

\* C13: a run calls fetch_stock_history once for each entry of remaining as
\* it was when the loop started, in list order: the calls made so far are a
\* prefix of that list, and all of it when the loop has ended.
C13_SnapshotIteration ==
    /\ pc \in {"loop", "fetch", "returned", "save"} =>
         /\ Len(fetched) = i
         /\ IsPrefix(fetched, RemainingAtLoopStart)
    /\ pc = "fetch" => code = RemainingAtLoopStart[i]
    /\ pc \in {"summary", "done"} => fetched = RemainingAtLoopStart

C13_Witness ==
    /\ pc = "done"
    /\ Len(returned) >= 2
    /\ absent # {}
    /\ Len(status.remaining) < Len(RemainingAtLoopStart)
    /\ fetched = RemainingAtLoopStart


\* save_download_status calls a run has made when s RowSets were recorded
SavesAfter(s) == s + (IF loaded.total = 0 THEN 1 ELSE 0)

\* C14: every success is followed by exactly one save before the next fetch
\* starts, so at the start of every fetch the status file holds the record
\* that is in memory; a fetch that returns None causes no save.
C14_SavePerSuccess ==
    /\ pc \in {"loop", "fetch"} =>
         /\ statusFile = << status >>
         /\ saves = SavesAfter(Len(returned))
    /\ pc = "returned" =>
         saves = SavesAfter(Len(returned) - (IF df = NoLine THEN 0 ELSE 1))
    /\ pc = "save" => saves = SavesAfter(Len(returned) - 1)

C14_Witness ==
    /\ pc = "fetch"
    /\ Len(returned) >= 2
    /\ absent # {}
    /\ saves = SavesAfter(Len(returned))
    /\ statusFile = << status >>

\* the steps of an iteration whose fetch returns None: the call, the answers,
\* the delay
AbsentIterationStep ==
    \/ pc = "loop" /\ pc' = "fetch"
    \/ pc = "fetch" /\ pc' = "fetch"
    \/ pc = "fetch" /\ pc' = "returned" /\ df' = NoLine
    \/ pc = "returned" /\ df = NoLine /\ pc' = "loop"

\* C15: an iteration whose fetch returns None leaves completed, remaining,
\* total, the buffer, the CSV and the status file as they were.
C15_AbsentFrame ==
    [][ AbsentIterationStep =>
          UNCHANGED << status, all_data, outFile, statusFile, success_count, saves >> ]_vars

C15_Witness ==
    /\ pc = "loop"
    /\ df = NoLine
    /\ code \in absent
    /\ i > 0
    /\ all_data # <<>>
    /\ statusFile = << status >>


\* C16: the summary reports len(completed) as the success count, and as the
\* failure count total - success, which is the number of fetch calls of this
\* run that returned None (one call per entry of the iterated list) and the
\* length of remaining.
C16_SummaryCounts ==
    pc = "done" =>
      /\ summary.total = status.total
      /\ summary.success = Len(status.completed)
      /\ summary.failed = summary.total - summary.success
      /\ summary.failed = Len(fetched) - Len(returned)
      /\ summary.failed = Len(status.remaining)

C16_Witness ==
    /\ pc = "done"
    /\ loaded.total # 0
    /\ Len(loaded.completed) > 0
    /\ summary.success > Len(loaded.completed)
    /\ summary.failed > 0
    /\ summary.failed = Len(fetched) - Len(returned)


\* C17: when no fetch call gets 429 answers without end, every fetch call
\* returns, after at most MAX_RETRIES + 1 requests beyond its 429 answers, and
\* an uninterrupted run ends after one pass over the iterated list.
C17_Termination ==
    /\ [](requests <= MAX_RETRIES + 1 + n429)
    /\ [](Len(fetched) <= Len(iter_list))
    /\ (pc = "fetch") ~> (pc = "returned")
    /\ <>(pc = "done" /\ fetched = iter_list /\ statusFile = <<>>)

C17_Witness ==
    /\ pc = "returned"
    /\ n429 >= 3
    /\ requests > n429 + 2
    /\ last_resp = "exception"
    /\ df = NoLine


NoDuplicates(u) == \A j, k \in 1..Len(u) : u[j] = u[k] => j = k

\* C18: a list get_filtered_stock_codes returns from a fallback path holds
\* each identifier at most once, so remaining of a freshly initialized record
\* has no duplicate entries.
C18_UniqueIdentifiers ==
    (pc = "prepare" /\ loaded.total = 0 /\ ak.kind # "table") =>
      /\ NoDuplicates(all_codes)
      /\ NoDuplicates(status.remaining)


\* C19, as claimed: whatever the number of 429 answers earlier in the call,
\* MAX_RETRIES exceptions are retried before the call returns None.
C19_SeparateBudget ==
    (pc = "returned" /\ last_resp = "exception") =>
      requests - 1 - n429 = MAX_RETRIES

\* C19, amended: 429 answers and exceptions share one attempt counter: an
\* exception is retried exactly when fewer than MAX_RETRIES answers (429 or
\* exception) were retried before it in the call; at most MAX_RETRIES
\* exceptions are retried, and after five 429 answers none is.
C19_SharedBudget ==
    /\ [][ (pc = "fetch" /\ requests' = requests + 1 /\ last_resp' = "exception") =>
             IF requests < MAX_RETRIES
             THEN /\ pc' = "fetch"
                  /\ retry_count' = retry_count + 1
                  /\ wait_time' \in 10..30
             ELSE /\ pc' = "returned"
                  /\ df' = NoLine ]_vars
    /\ []((pc = "returned" /\ last_resp = "exception") =>
            /\ requests - 1 - n429 <= MAX_RETRIES
            /\ requests - 1 >= MAX_RETRIES)

C19_Witness ==
    /\ pc = "returned"
    /\ last_resp = "exception"
    /\ n429 = MAX_RETRIES
    /\ requests = MAX_RETRIES + 1
    /\ df = NoLine

\* C20: a status other than 200 and 429, and a 200 answer without data, make
\* the call return None at once, whatever the attempt counter: no sleep and no
\* further request.
C20_ImmediateAbsent ==
    [][ (pc = "fetch" /\ requests' = requests + 1 /\ last_resp' \in {"nodata", "other"}) =>
          /\ pc' = "returned"
          /\ df' = NoLine
          /\ code \in absent'
          /\ UNCHANGED << retry_count, wait_time, sleeps, n429 >> ]_vars

C20_Witness ==
    /\ pc = "returned"
    /\ last_resp = "other"
    /\ requests = 1
    /\ retry_count = 0
    /\ sleeps = 0
    /\ df = NoLine

====
